---- MODULE Spec2Model ----
(***************************************************************************)
(* Model of bake_materials_to_uv.py: the "Bake Materials to UV" operator   *)
(* (OBJECT_OT_bake_materials_to_uv), its graph helpers and the save        *)
(* operator (OBJECT_OT_bake_materials_save), running against the host's    *)
(* data: material slots, materials, node trees, nodes, links, images,      *)
(* render settings and written files.                                      *)
(*                                                                         *)
(* Host handles (materials, trees, nodes, images) are integers drawn from  *)
(* one fresh counter; a removed datablock leaves the domain of its map, so *)
(* a handle kept by the operator after removal is visibly dangling.        *)
(* Floats are integers in tenths (1.0 is One).                             *)
(***************************************************************************)
EXTENDS Integers, Sequences, FiniteSets, TLC

VARIABLES
  slots,     \* obj.material_slots: sequence of material handles, 0 is an empty slot
  mat,       \* bpy.data.materials: handle -> [library, use_nodes, tree]
  tree,      \* node trees: handle -> [nodes, links, active]
  node,      \* nodes: handle -> [type, name, group, select, image, inputs, out]
  images,    \* bpy.data.images: handle -> [name, pixels]
  env,       \* [engine, device, compute, mode, selected]
  files,     \* written files: <<target name, suffix>> -> [img, pixels]
  sceneProp, \* scene["_bake_target_image_name"], "" when unset
  nextId,    \* next fresh host handle
  pc,        \* position of the running operator, "idle" between operators
  loc,       \* locals of the running execute
  result,    \* what the last operator call ended with
  hist       \* observations of the last execute, read by the properties only

vars == <<slots, mat, tree, node, images, env, files, sceneProp, nextId,
          pc, loc, result, hist>>

\* ------------------------------------------------------------------ bounds

MaxRuns == 1        \* executes past validation in a behaviour of Spec
MaxBakes == 2       \* executes past validation in a behaviour of SpecLife
MaxSlots == 2       \* material slots of the object in SpecRewire
MaxPixels == 2      \* width * height of the target image
MaxNest == 12       \* group levels above the deepest tree in SpecFind

\* --------------------------------------------------------------- constants

One == 10           \* the float 1.0, in tenths
MaxDepth == 10      \* recursion bound of _find_principled
NumPasses == 7      \* channel passes of execute
ByteMax == 255      \* full intensity of a pixel component

None == 0

Channels == <<"emissive", "basecolor", "normal", "ao", "roughness",
              "opacity", "metallic">>

\* The order in which execute allocates the channel images (dict order).
AllocOrder == <<"basecolor", "normal", "ao", "roughness", "metallic",
                "emissive", "opacity">>

\* The source input a pass routes into Emission Color, "" for a direct pass.
RewireSource == <<"", "Base Color", "", "", "", "Alpha", "Metallic">>

SourceNames == {"Base Color", "Alpha", "Metallic"}

\* What a use of a dangling host handle may do: the host raises, or the call
\* goes through without the effect.
UBOutcomes == {"raise", "ignore"}

RangeOf(s) == {s[i] : i \in 1..Len(s)}

\* ------------------------------------------------------ host: names, nodes

\* The host's unique-name rule: the base name, else the first free suffix.
UniqueName(used, base) ==
  LET k == CHOOSE k \in 0..Cardinality(used) :
             /\ <<base, k>> \notin used
             /\ \A j \in 0..(k - 1) : <<base, j>> \in used
  IN <<base, k>>

Color(r, g, b, a) == [kind |-> "color", v |-> <<r, g, b, a>>]
Scalar(x) == [kind |-> "scalar", v |-> x]

NoInputs == [x \in {} |-> Scalar(0)]

NodeNames(g, t) == {g.node[n].name : n \in RangeOf(g.tree[t].nodes)}

\* nodes.new(type) followed by the name assignment: a fresh node appended to
\* tree t. Returns the graph; the new handle is the old g.nextId.
NodesNew(g, t, type, base) ==
  LET n == g.nextId
      rec == [type |-> type, name |-> UniqueName(NodeNames(g, t), base),
              group |-> None, select |-> FALSE, image |-> None,
              inputs |-> NoInputs, out |-> Color(0, 0, 0, One)]
  IN [g EXCEPT !.node = (n :> rec) @@ g.node,
               !.tree[t].nodes = Append(@, n),
               !.nextId = n + 1]

RemoveAt(s, n) == SelectSeq(s, LAMBDA x : x # n)

\* nodes.remove(node) on a live node of tree t: the node, and every link
\* that touches it, leave the tree.
NodesRemove(g, t, n) ==
  [g EXCEPT !.node = [m \in (DOMAIN g.node) \ {n} |-> g.node[m]],
            !.tree[t].nodes = RemoveAt(@, n),
            !.tree[t].links = {l \in @ : l.from # n /\ l.to # n},
            !.tree[t].active = IF @ = n THEN None ELSE @]

LinksInto(g, t, n, input) ==
  {l \in g.tree[t].links : l.to = n /\ l.input = input}

\* links.new(from_socket, input) on a single-link input: replaces its link.
LinksNew(g, t, from, n, input) ==
  [g EXCEPT !.tree[t].links =
     (@ \ LinksInto(g, t, n, input))
       \cup {[from |-> from, to |-> n, input |-> input]}]

LinksRemove(g, t, ls) == [g EXCEPT !.tree[t].links = @ \ ls]

\* --------------------------------------------------- _find_principled

RECURSIVE FindPrincipled(_, _, _), ScanNodes(_, _, _, _)

\* The loop of _find_principled from node index i of tree t on.
ScanNodes(g, t, i, depth) ==
  IF i > Len(g.tree[t].nodes) THEN <<None, None>>
  ELSE LET n == g.tree[t].nodes[i] IN
       IF g.node[n].type = "BSDF_PRINCIPLED" THEN <<n, t>>
       ELSE IF g.node[n].type = "GROUP" /\ g.node[n].group # None
            THEN LET r == FindPrincipled(g, g.node[n].group, depth + 1) IN
                 IF r[1] # None THEN r ELSE ScanNodes(g, t, i + 1, depth)
            ELSE ScanNodes(g, t, i + 1, depth)

\* FindPrincipled giving up one level early (depth >= 10).
FindPrincipledShallow(g, t, depth) ==
  IF depth >= MaxDepth THEN <<None, None>> ELSE ScanNodes(g, t, 1, depth)

\* _find_principled(node_tree, depth): <<node, containing tree>> or
\* <<None, None>>.
FindPrincipled(g, t, depth) ==
  IF depth > MaxDepth THEN <<None, None>> ELSE ScanNodes(g, t, 1, depth)

\* ------------------------------------- _inject_bake_nodes, _remove_bake_nodes

\* The two skip tests at the head of the slot loops.
Usable(mt, m) ==
  /\ m # None
  /\ mt[m].use_nodes
  /\ mt[m].tree # None
  /\ ~mt[m].library

\* The body of the slot loop of _inject_bake_nodes for tree t.
InjectOne(g, t, img) ==
  LET n == g.nextId
      g1 == [g EXCEPT !.node = [m \in DOMAIN g.node |->
                        IF m \in RangeOf(g.tree[t].nodes)
                        THEN [g.node[m] EXCEPT !.select = FALSE]
                        ELSE g.node[m]]]
      g2 == NodesNew(g1, t, "TEX_IMAGE", "_bake_temp_node")
  IN [g2 EXCEPT !.node[n].image = img,
                !.node[n].select = TRUE,
                !.tree[t].active = n]

RECURSIVE InjectFrom(_, _, _, _, _, _)
InjectFrom(g, sl, mt, img, i, acc) ==
  IF i > Len(sl) THEN [g |-> g, temp |-> acc]
  ELSE IF ~Usable(mt, sl[i]) THEN InjectFrom(g, sl, mt, img, i + 1, acc)
  ELSE InjectFrom(InjectOne(g, mt[sl[i]].tree, img), sl, mt, img, i + 1,
                  Append(acc, <<sl[i], g.nextId>>))

\* _inject_bake_nodes(obj, bake_image): the graph after it, and temp_nodes.
InjectBakeNodes(g, sl, mt, img) == InjectFrom(g, sl, mt, img, 1, <<>>)

RECURSIVE RemoveFrom(_, _, _, _)
RemoveFrom(g, mt, temp, i) ==
  IF i > Len(temp) THEN g
  ELSE LET m == temp[i][1]
           n == temp[i][2]
       IN IF mt[m].tree # None
          THEN RemoveFrom(NodesRemove(g, mt[m].tree, n), mt, temp, i + 1)
          ELSE RemoveFrom(g, mt, temp, i + 1)

\* _remove_bake_nodes(temp_nodes): every recorded node is removed by handle.
RemoveBakeNodes(g, mt, temp) == RemoveFrom(g, mt, temp, 1)

\* ------------------------------------------- _setup_rewire, _restore_rewire

FromSockets(ls) == IF ls = {} THEN <<>> ELSE <<(CHOOSE l \in ls : TRUE).from>>

\* The constant colour a source default becomes (lines 368-371).
ConstantOf(val) ==
  IF val.kind = "color"
  THEN Color(val.v[1], val.v[2], val.v[3], One)
  ELSE Color(val.v, val.v, val.v, One)

\* SetupOne without line 375: Emission Strength is left as it was.
SetupOneKeepsStrength(g, t, p, src) ==
  LET ecLinks == LinksInto(g, t, p, "Emission Color")
      srcLinks == LinksInto(g, t, p, src)
      linked == srcLinks # {}
      restore == [node_tree |-> t,
                  principled |-> p,
                  emission_color_links |-> FromSockets(ecLinks),
                  emission_color_default |-> g.node[p].inputs["Emission Color"],
                  emission_strength_value |-> g.node[p].inputs["Emission Strength"],
                  temp_nodes |-> IF linked THEN <<>> ELSE <<g.nextId>>]
      g1 == LinksRemove(g, t, ecLinks)
      g2 == IF linked
            THEN LinksNew(g1, t, (CHOOSE l \in srcLinks : TRUE).from, p,
                          "Emission Color")
            ELSE LET n == g1.nextId
                     a == NodesNew(g1, t, "RGB", "_bake_" \o src \o "_temp")
                     b == [a EXCEPT !.node[n].out =
                                      ConstantOf(g.node[p].inputs[src])]
                 IN LinksNew(b, t, n, p, "Emission Color")
  IN [g |-> g2, restore |-> restore]

\* The body of the slot loop of _setup_rewire for Principled node p of tree t:
\* the graph after it and the restore record.
SetupOne(g, t, p, src) ==
  LET ecLinks == LinksInto(g, t, p, "Emission Color")
      srcLinks == LinksInto(g, t, p, src)
      linked == srcLinks # {}
      restore == [node_tree |-> t,
                  principled |-> p,
                  emission_color_links |-> FromSockets(ecLinks),
                  emission_color_default |-> g.node[p].inputs["Emission Color"],
                  emission_strength_value |-> g.node[p].inputs["Emission Strength"],
                  temp_nodes |-> IF linked THEN <<>> ELSE <<g.nextId>>]
      g1 == LinksRemove(g, t, ecLinks)
      g2 == IF linked
            THEN LinksNew(g1, t, (CHOOSE l \in srcLinks : TRUE).from, p,
                          "Emission Color")
            ELSE LET n == g1.nextId
                     a == NodesNew(g1, t, "RGB", "_bake_" \o src \o "_temp")
                     b == [a EXCEPT !.node[n].out =
                                      ConstantOf(g.node[p].inputs[src])]
                 IN LinksNew(b, t, n, p, "Emission Color")
  IN [g |-> [g2 EXCEPT !.node[p].inputs["Emission Strength"] = Scalar(One)],
      restore |-> restore]

RECURSIVE SetupFromConstantFirst(_, _, _, _, _, _)
\* SetupFrom creating the constant node before the test of line 336: a
\* material without a Principled node gets the node and no record.
SetupFromConstantFirst(g, sl, mt, src, i, acc) ==
  IF i > Len(sl) THEN [g |-> g, restore_data |-> acc]
  ELSE IF ~Usable(mt, sl[i])
  THEN SetupFromConstantFirst(g, sl, mt, src, i + 1, acc)
  ELSE LET found == FindPrincipled(g, mt[sl[i]].tree, 0) IN
       IF found[1] = None
       THEN SetupFromConstantFirst(
              NodesNew(g, mt[sl[i]].tree, "RGB", "_bake_" \o src \o "_temp"),
              sl, mt, src, i + 1, acc)
       ELSE LET one == SetupOne(g, found[2], found[1], src)
            IN SetupFromConstantFirst(one.g, sl, mt, src, i + 1,
                                      Append(acc, one.restore))

RECURSIVE SetupFrom(_, _, _, _, _, _)
SetupFrom(g, sl, mt, src, i, acc) ==
  IF i > Len(sl) THEN [g |-> g, restore_data |-> acc]
  ELSE IF ~Usable(mt, sl[i]) THEN SetupFrom(g, sl, mt, src, i + 1, acc)
  ELSE LET found == FindPrincipled(g, mt[sl[i]].tree, 0) IN
       IF found[1] = None THEN SetupFrom(g, sl, mt, src, i + 1, acc)
       ELSE LET one == SetupOne(g, found[2], found[1], src)
            IN SetupFrom(one.g, sl, mt, src, i + 1, Append(acc, one.restore))

\* _setup_rewire(obj, source_input_name): the graph after it, and restore_data.
SetupRewire(g, sl, mt, src) == SetupFrom(g, sl, mt, src, 1, <<>>)

\* Lines 391-392: links.new for every recorded source socket. A recorded
\* socket whose node has been removed is a dangling handle.
RECURSIVE RelinkFrom(_, _, _, _, _, _)
RelinkFrom(g, t, p, froms, i, ub) ==
  IF i > Len(froms) THEN [g |-> g, raised |-> FALSE]
  ELSE IF froms[i] \in DOMAIN g.node
       THEN RelinkFrom(LinksNew(g, t, froms[i], p, "Emission Color"),
                       t, p, froms, i + 1, ub)
       ELSE IF ub = "raise" THEN [g |-> g, raised |-> TRUE]
            ELSE RelinkFrom(g, t, p, froms, i + 1, ub)

\* Lines 397-398: nodes.remove for every recorded temporary node; one that
\* is no longer in the tree is a dangling handle.
RECURSIVE RemoveTempFrom(_, _, _, _, _)
RemoveTempFrom(g, t, temps, i, ub) ==
  IF i > Len(temps) THEN [g |-> g, raised |-> FALSE]
  ELSE IF temps[i] \in RangeOf(g.tree[t].nodes)
       THEN RemoveTempFrom(NodesRemove(g, t, temps[i]), t, temps, i + 1, ub)
       ELSE IF ub = "raise" THEN [g |-> g, raised |-> TRUE]
            ELSE RemoveTempFrom(g, t, temps, i + 1, ub)

\* The body of the loop of _restore_rewire for one record.
RestoreOne(g, r, ub) ==
  LET t == r.node_tree
      p == r.principled
      g1 == LinksRemove(g, t, LinksInto(g, t, p, "Emission Color"))
      relinked == RelinkFrom(g1, t, p, r.emission_color_links, 1, ub)
      g2 == [relinked.g EXCEPT
               !.node[p].inputs["Emission Color"] = r.emission_color_default,
               !.node[p].inputs["Emission Strength"] = r.emission_strength_value]
  IN IF relinked.raised THEN relinked
     ELSE RemoveTempFrom(g2, t, r.temp_nodes, 1, ub)

RECURSIVE RestoreFrom(_, _, _, _)
RestoreFrom(g, data, i, ub) ==
  IF i > Len(data) THEN [g |-> g, raised |-> FALSE]
  ELSE LET one == RestoreOne(g, data[i], ub) IN
       IF one.raised THEN one ELSE RestoreFrom(one.g, data, i + 1, ub)

\* _restore_rewire(restore_data) under outcome ub of any dangling handle
\* it uses: the graph after it, and whether it raised.
RestoreRewire(g, data, ub) == RestoreFrom(g, data, 1, ub)

\* ----------------------------------- _make_materials_local and its inverse

\* mat.copy(): a new local material whose embedded node tree is a copy of
\* m's (fresh nodes, links carried over); a group node of the copy still
\* refers to the same node-group tree as the original's.
MaterialCopy(g, mt, m) ==
  LET m2 == g.nextId
      t == mt[m].tree
      t2 == IF t = None THEN None ELSE g.nextId + 1
      ns == IF t = None THEN <<>> ELSE g.tree[t].nodes
      pos(n) == CHOOSE i \in 1..Len(ns) : ns[i] = n
      new(n) == g.nextId + 1 + pos(n)
      ns2 == [i \in 1..Len(ns) |-> g.nextId + 1 + i]
      g2 == IF t = None THEN [g EXCEPT !.nextId = m2 + 1]
            ELSE [g EXCEPT
                    !.tree = (t2 :> [nodes |-> ns2,
                                     links |-> {[from |-> new(l.from),
                                                 to |-> new(l.to),
                                                 input |-> l.input] :
                                                l \in g.tree[t].links},
                                     active |-> IF g.tree[t].active = None
                                                THEN None
                                                ELSE new(g.tree[t].active)])
                             @@ g.tree,
                    !.node = [n \in {ns2[i] : i \in 1..Len(ns)} |->
                                g.node[ns[n - g.nextId - 1]]] @@ g.node,
                    !.nextId = g.nextId + 2 + Len(ns)]
  IN [g |-> g2,
      mat |-> (m2 :> [library |-> FALSE, use_nodes |-> mt[m].use_nodes,
                      tree |-> t2]) @@ mt]

RECURSIVE MakeLocalFrom(_, _, _, _, _)
MakeLocalFrom(g, sl, mt, i, orig) ==
  IF i > Len(sl) THEN [g |-> g, slots |-> sl, mat |-> mt, original |-> orig]
  ELSE IF sl[i] # None /\ mt[sl[i]].library
       THEN LET c == MaterialCopy(g, mt, sl[i])
            IN MakeLocalFrom(c.g, [sl EXCEPT ![i] = g.nextId], c.mat, i + 1,
                             (i :> sl[i]) @@ orig)
       ELSE MakeLocalFrom(g, sl, mt, i + 1, orig)

\* _make_materials_local(obj): slots, materials and graph after it, and the
\* returned original_materials (slot index -> material).
MakeMaterialsLocal(g, sl, mt) ==
  MakeLocalFrom(g, sl, mt, 1, [x \in {} |-> None])

\* local_mat.users: the slots that refer to material m.
Users(sl, m) == Cardinality({i \in 1..Len(sl) : sl[i] = m})

\* bpy.data.materials.remove(m): the material, its embedded tree and nodes.
MaterialsRemove(g, mt, m) ==
  LET t == mt[m].tree
      gone == IF t = None THEN {} ELSE RangeOf(g.tree[t].nodes)
  IN [g |-> IF t = None THEN g
            ELSE [g EXCEPT
                    !.tree = [u \in (DOMAIN g.tree) \ {t} |-> g.tree[u]],
                    !.node = [n \in (DOMAIN g.node) \ gone |-> g.node[n]]],
      mat |-> [u \in (DOMAIN mt) \ {m} |-> mt[u]]]

RECURSIVE RestoreOriginalFrom(_, _, _, _, _)
RestoreOriginalFrom(g, sl, mt, orig, i) ==
  IF i > Len(sl) THEN [g |-> g, slots |-> sl, mat |-> mt]
  ELSE IF i \notin DOMAIN orig THEN RestoreOriginalFrom(g, sl, mt, orig, i + 1)
  ELSE LET local == sl[i]
           sl2 == [sl EXCEPT ![i] = orig[i]]
       IN IF local # None /\ Users(sl2, local) = 0
          THEN LET r == MaterialsRemove(g, mt, local)
               IN RestoreOriginalFrom(r.g, sl2, r.mat, orig, i + 1)
          ELSE RestoreOriginalFrom(g, sl2, mt, orig, i + 1)

\* _restore_original_materials(obj, original_materials).
RestoreOriginalMaterials(g, sl, mt, orig) ==
  RestoreOriginalFrom(g, sl, mt, orig, 1)

\* ------------------------------------------------------- host: images

ImageNames(im) == {im[h].name : h \in DOMAIN im}

\* bpy.data.images.get(name): the handle of the image of that name, or None.
ImagesGet(im, name) ==
  IF name \in ImageNames(im)
  THEN CHOOSE h \in DOMAIN im : im[h].name = name
  ELSE None

Opaque(r, g, b) == <<r, g, b, ByteMax>>

\* bpy.data.images.new(name, width, height): a registered black image of n
\* pixels under handle h, named by the unique-name rule.
ImagesNew(im, h, base, n) ==
  (h :> [name |-> UniqueName(ImageNames(im), base),
         pixels |-> [p \in 1..n |-> Opaque(0, 0, 0)]]) @@ im

ImagesRemove(im, h) == [x \in (DOMAIN im) \ {h} |-> im[x]]

\* What the host's bake writes into a channel image: a render that differs
\* from one execute (seed), pass and pixel to the next.
BakeOutput(seed, chan, n) ==
  [p \in 1..n |-> <<(40 * seed + 20 * chan + p) % (ByteMax + 1),
                    (70 * seed + 11 * chan + 2 * p) % (ByteMax + 1),
                    (90 * seed + 7 * chan + 3 * p) % (ByteMax + 1),
                    ByteMax>>]

\* --------------------------------------------------------- _pack_orm

\* PackPixel taking from each source the component it fills, not the red one.
PackPixelOwnComponent(ao, rough, metal) == <<ao[1], rough[2], metal[3], ByteMax>>

\* Lines 402-410: the red components of the three sources, alpha one.
PackPixel(ao, rough, metal) == <<ao[1], rough[1], metal[1], ByteMax>>

PackPixels(ao, rough, metal, n) ==
  [p \in 1..n |-> PackPixel(ao[p], rough[p], metal[p])]

\* _pack_orm: the registry after the new _bake_orm image (handle h) is
\* registered and filled.
PackOrm(im, h, ao, rough, metal, n) ==
  LET im2 == ImagesNew(im, h, "_bake_orm", n)
  IN [im2 EXCEPT ![h].pixels =
        PackPixels(im[ao].pixels, im[rough].pixels, im[metal].pixels, n)]

\* ------------------------------------------------- the scenes of Init

\* What a material slot may hold: a local or library-linked material whose
\* Principled node is at the top level ("top", "libtop"), inside a node
\* group ("group", "libgroup") or absent ("none"), a material without nodes
\* ("flat"), nothing ("empty"), or the material of the slot before ("same").
OwnKinds == {"top", "group", "none", "libtop", "libgroup", "flat"}
SlotKinds == OwnKinds \cup {"empty", "same"}

GroupTree == 9

SlotLayouts ==
  {k \in UNION {[1..n -> SlotKinds] : n \in 1..MaxSlots} :
     /\ k[1] # "same"
     /\ \A j \in 2..Len(k) : k[j] = "same" => k[j - 1] # "empty"}

RECURSIVE SlotMaterial(_, _)
SlotMaterial(k, j) ==
  IF k[j] = "empty" THEN None
  ELSE IF k[j] = "same" THEN SlotMaterial(k, j - 1)
  ELSE j

HasPrincipled(kind) == kind \in {"top", "libtop"}
HasGroup(kind) == kind \in {"group", "libgroup"}

TreeOf(j) == 10 + j
TexOf(j) == 10 * j + 1
MathOf(j) == 10 * j + 2
MainOf(j) == 10 * j + 3
OutOf(j) == 10 * j + 4

SceneNodes(kind, j) ==
  IF HasPrincipled(kind) THEN <<TexOf(j), MathOf(j), MainOf(j), OutOf(j)>>
  ELSE IF HasGroup(kind) THEN <<TexOf(j), MainOf(j), OutOf(j)>>
  ELSE <<TexOf(j), OutOf(j)>>

\* The links of a tree around its Principled node p: Emission Color from
\* the texture node, the three source inputs from the math node.
PrincipledLinks(cfg, j) ==
  (IF cfg.ec
   THEN {[from |-> TexOf(j), to |-> MainOf(j), input |-> "Emission Color"]}
   ELSE {})
  \cup
  (IF cfg.src
   THEN {[from |-> MathOf(j), to |-> MainOf(j), input |-> s] : s \in SourceNames}
   ELSE {})

SceneLinks(kind, cfg, j) ==
  IF HasPrincipled(kind)
  THEN PrincipledLinks(cfg, j)
         \cup {[from |-> MainOf(j), to |-> OutOf(j), input |-> "Surface"]}
  ELSE IF HasGroup(kind)
  THEN {[from |-> MainOf(j), to |-> OutOf(j), input |-> "Surface"]}
  ELSE {}

PrincipledInputs(cfg) ==
  [x \in SourceNames \cup {"Emission Color", "Emission Strength"} |->
     CASE x = "Base Color" -> Color(8, 4, 2, 5)
       [] x = "Alpha" -> Scalar(5)
       [] x = "Metallic" -> Scalar(3)
       [] x = "Emission Color" -> Color(1, 2, 3, One)
       [] OTHER -> Scalar(cfg.strength)]

PlainNode(type, base) ==
  [type |-> type, name |-> <<base, 0>>, group |-> None, select |-> FALSE,
   image |-> None, inputs |-> NoInputs, out |-> Color(0, 0, 0, One)]

SceneNode(kind, cfg, j, n) ==
  IF n = TexOf(j)
  THEN PlainNode("TEX_IMAGE",
                 IF j = 1 THEN "_bake_temp_node" ELSE "Image Texture")
  ELSE IF n = MathOf(j) THEN PlainNode("MATH", "Math")
  ELSE IF n = OutOf(j) THEN PlainNode("OUTPUT_MATERIAL", "Material Output")
  ELSE IF HasPrincipled(kind)
  THEN [PlainNode("BSDF_PRINCIPLED", "Principled BSDF")
          EXCEPT !.inputs = PrincipledInputs(cfg)]
  ELSE [PlainNode("GROUP", "Group") EXCEPT !.group = GroupTree]

OwnSlots(k) == {j \in 1..Len(k) : k[j] \in OwnKinds}
TreeSlots(k) == {j \in OwnSlots(k) : k[j] # "flat"}

\* The host data of a scene: layout k of the slots, configuration cfg of
\* every Principled node.
SceneSlots(k) == [j \in 1..Len(k) |-> SlotMaterial(k, j)]

SceneMat(k) ==
  [j \in OwnSlots(k) |->
     [library |-> k[j] \in {"libtop", "libgroup"},
      use_nodes |-> k[j] # "flat",
      tree |-> IF k[j] = "flat" THEN None ELSE TreeOf(j)]]

SceneTree(k, cfg) ==
  [t \in {TreeOf(j) : j \in TreeSlots(k)} \cup {GroupTree} |->
     IF t = GroupTree
     THEN [nodes |-> <<TexOf(GroupTree), MathOf(GroupTree), MainOf(GroupTree)>>,
           links |-> PrincipledLinks(cfg, GroupTree),
           active |-> None]
     ELSE [nodes |-> SceneNodes(k[t - 10], t - 10),
           links |-> SceneLinks(k[t - 10], cfg, t - 10),
           active |-> TexOf(t - 10)]]

SceneNodeMap(k, cfg) ==
  [n \in UNION {RangeOf(SceneNodes(k[j], j)) : j \in TreeSlots(k)}
           \cup {TexOf(GroupTree), MathOf(GroupTree), MainOf(GroupTree)} |->
     IF n \div 10 = GroupTree
     THEN SceneNode("top", cfg, GroupTree, n)
     ELSE SceneNode(k[n \div 10], cfg, n \div 10, n)]

FirstId == 100
UserImage == 5

PrincipledConfigs ==
  [ec : BOOLEAN, src : BOOLEAN, strength : {0, One, 2 * One}]

\* Render settings, object mode and selection as execute may find them;
\* types are the compute backends the host offers, uv_choice the UV map
\* picked in the dialog (target_uv_layer).
Environments ==
  {[engine |-> "BLENDER_EEVEE", device |-> "CPU", compute |-> "NONE",
    mode |-> "EDIT", selected |-> FALSE, types |-> {"OPTIX", "METAL"},
    uv_active |-> "UVMap", uv_choice |-> "UV2"],
   [engine |-> "CYCLES", device |-> "GPU", compute |-> "CUDA",
    mode |-> "OBJECT", selected |-> TRUE, types |-> {},
    uv_active |-> "UVMap", uv_choice |-> "NONE"]}

UVLayers == {"UVMap", "UV2"}

Backends == <<"CUDA", "OPTIX", "HIP", "ONEAPI", "METAL">>

NoneName == <<"NONE", 0>>

NoLoc == [chan |-> 0]

NoEnv == [engine |-> "", device |-> "", compute |-> "", mode |-> "",
          selected |-> FALSE, types |-> {}, uv_active |-> "",
          uv_choice |-> ""]

NoView == [t \in {} |-> None]

\* limit: the executes this behaviour may run; runs: those run so far.
\* op: the last operator call; prev: at a save, the call before it. target: the last
\* execute's target_image. slots0, env0, mats0, lib0: the slots, settings,
\* materials and library graphs when the last execute was called. pre: the
\* graphs at the head of each pass. raisedAt: the pass whose bake call
\* raised. okBakes: bake calls that returned. allocated: images created by
\* the last execute. written: files written by the last save. source: the
\* input name of the last direct _setup_rewire call.
NoHist ==
  [limit |-> 0, runs |-> 0, op |-> "", prev |-> "", target |-> <<"", 0>>,
   slots0 |-> <<>>, env0 |-> NoEnv, mats0 |-> {}, lib0 |-> NoView,
   source |-> "", pre |-> <<>>, raisedAt |-> 0, okBakes |-> 0, packCalled |-> FALSE,
   allocated |-> {}, written |-> {}]

\* ------------------------------------------------ what the properties read

G == [tree |-> tree, node |-> node, nextId |-> nextId]

RECURSIVE Reach(_, _)
\* The trees of a material graph: tree t and the group trees nested in it.
Reach(g, t) ==
  {t} \cup UNION {Reach(g, g.node[n].group) :
                    n \in {m \in RangeOf(g.tree[t].nodes) :
                             g.node[m].type = "GROUP" /\ g.node[m].group # None}}

MaterialTrees(g, mt, m) ==
  IF m = None \/ mt[m].tree = None THEN {} ELSE Reach(g, mt[m].tree)

PrincipledOf(g, t) ==
  {n \in RangeOf(g.tree[t].nodes) : g.node[n].type = "BSDF_PRINCIPLED"}

\* The emission state of the Principled nodes of tree t.
EmissionView(g, t) ==
  [n \in PrincipledOf(g, t) |->
     [links |-> {l.from : l \in LinksInto(g, t, n, "Emission Color")},
      color |-> g.node[n].inputs["Emission Color"],
      strength |-> g.node[n].inputs["Emission Strength"]]]

\* The input default values of every Principled node.
InputsView(g) ==
  [n \in {m \in DOMAIN g.node : g.node[m].type = "BSDF_PRINCIPLED"} |->
     g.node[n].inputs]

\* A material graph as the claims compare it: per tree its nodes, its links
\* and the emission state of its Principled nodes.
TreeView(g, t) ==
  [nodes |-> RangeOf(g.tree[t].nodes),
   links |-> g.tree[t].links,
   emission |-> EmissionView(g, t)]

\* The graphs of the materials ms.
GraphView(g, mt, ms) ==
  [t \in UNION {MaterialTrees(g, mt, m) : m \in ms} |-> TreeView(g, t)]

BakeImages(im) == {h \in DOMAIN im : im[h].name[1] \in
                     {"_bake_" \o Channels[i] : i \in 1..NumPasses}
                       \cup {"_bake_orm"}}

\* ----------------------------------------------------------------- Init

\* The host with scene (k, cfg) loaded, one user image to take the bake
\* resolution from, and no operator running.
LoadedScene(k, cfg) ==
  /\ slots = SceneSlots(k)
  /\ mat = SceneMat(k)
  /\ tree = SceneTree(k, cfg)
  /\ node = SceneNodeMap(k, cfg)

Loaded(k, cfg) ==
  /\ LoadedScene(k, cfg)
  /\ images = (UserImage :> [name |-> <<"Tex", 0>>,
                             pixels |-> [p \in 1..MaxPixels |-> Opaque(9, 9, 9)]])
  /\ files = [x \in {} |-> None]
  /\ sceneProp = ""
  /\ nextId = FirstId
  /\ pc = "idle"
  /\ loc = NoLoc
  /\ result = ""

\* The scenes the operators are run over in Spec.
SceneMenu ==
  {<<"top">>, <<"libgroup">>, <<"top", "same">>, <<"group", "libgroup">>,
   <<"none", "flat">>, <<"empty", "libtop">>, <<"none", "top">>}

ConfigMenu ==
  {[ec |-> TRUE, src |-> FALSE, strength |-> 0],
   [ec |-> FALSE, src |-> TRUE, strength |-> 2 * One],
   [ec |-> TRUE, src |-> TRUE, strength |-> One]}

Init ==
  /\ \E k \in SceneMenu, cfg \in ConfigMenu : Loaded(k, cfg)
  /\ env \in Environments
  /\ hist = [NoHist EXCEPT !.limit = MaxRuns]

\* One scene, for the behaviours of several bakes and saves.
InitLife ==
  /\ Loaded(<<"top">>, [ec |-> TRUE, src |-> FALSE, strength |-> 0])
  /\ env \in Environments
  /\ hist = [NoHist EXCEPT !.limit = MaxBakes]

\* ------------------------------------------------- execute, lines 104-169

RECURSIVE FirstBackend(_, _)
\* Lines 144-152: the first backend, in the loop's order, the host offers.
FirstBackend(types, i) ==
  IF i > Len(Backends) THEN "NONE"
  ELSE IF Backends[i] \in types THEN Backends[i]
  ELSE FirstBackend(types, i + 1)

\* Lines 125-154: selection, mode, engine and device as execute sets them.
PreparedEnv(e) ==
  LET backend == FirstBackend(e.types, 1) IN
  [e EXCEPT !.uv_active = IF e.uv_choice # "NONE" /\ e.uv_choice \in UVLayers
                          THEN e.uv_choice ELSE @,
            !.selected = TRUE,
            !.mode = "OBJECT",
            !.engine = "CYCLES",
            !.compute = IF backend = "NONE" THEN @ ELSE backend,
            !.device = IF backend = "NONE" THEN "CPU" ELSE "GPU"]

RECURSIVE AllocFrom(_, _, _, _)
\* Lines 160-165: one image per channel, in the loop's order.
AllocFrom(im, h, n, i) ==
  IF i > Len(AllocOrder) THEN im
  ELSE AllocFrom(ImagesNew(im, h + i - 1, "_bake_" \o AllocOrder[i], n),
                 h, n, i + 1)

\* Lines 108-115: the target is neither the sentinel nor missing.
Valid(im, target) == target # NoneName /\ ImagesGet(im, target) # None

\* Rejected with the validation placed after line 127: the object is
\* selected before execute returns CANCELLED.
RejectedAfterSelect(target) ==
  /\ result' = "CANCELLED"
  /\ hist' = [hist EXCEPT !.op = "invalid", !.target = target]
  /\ env' = [env EXCEPT !.selected = TRUE]
  /\ UNCHANGED <<slots, mat, tree, node, images, files, sceneProp,
                 nextId, pc, loc>>

\* execute returns CANCELLED at line 110 or 115.
Rejected(target) ==
  /\ result' = "CANCELLED"
  /\ hist' = [hist EXCEPT !.op = "invalid", !.target = target]
  /\ UNCHANGED <<slots, mat, tree, node, images, env, files, sceneProp,
                 nextId, pc, loc>>

LibraryMaterials(mt) == {m \in DOMAIN mt : mt[m].library}

\* Lines 117-169: the preparation, up to the try block.
Prepare(target) ==
  LET n == Len(images[ImagesGet(images, target)].pixels)
      local == MakeMaterialsLocal(G, slots, mat)
      h == local.g.nextId
  IN /\ env' = PreparedEnv(env)
     /\ slots' = local.slots
     /\ mat' = local.mat
     /\ tree' = local.g.tree
     /\ node' = local.g.node
     /\ images' = AllocFrom(images, h, n, 1)
     /\ nextId' = h + Len(AllocOrder)
     /\ loc' = [chan |-> 1, target |-> target, seed |-> hist.runs + 1,
                n |-> n,
                was_selected |-> env.selected,
                original_mode |-> env.mode,
                original_engine |-> env.engine,
                original_device |-> env.device,
                original_compute_type |-> env.compute,
                original_materials |-> local.original,
                bake_images |->
                  [c \in RangeOf(AllocOrder) |->
                     h - 1 + CHOOSE i \in 1..Len(AllocOrder) :
                               AllocOrder[i] = c],
                orm |-> None,
                temp_nodes |-> <<>>,
                restore_data |-> <<>>,
                success |-> FALSE]
     /\ hist' = [NoHist EXCEPT
                   !.limit = hist.limit,
                   !.runs = hist.runs + 1,
                   !.op = "running",
                   !.target = target,
                   !.slots0 = slots,
                   !.env0 = env,
                   !.mats0 = DOMAIN mat,
                   !.lib0 = GraphView(G, mat, LibraryMaterials(mat)),
                   !.allocated = h..(h + Len(AllocOrder) - 1)]
     /\ pc' = "pass"
     /\ result' = ""
     /\ UNCHANGED <<files, sceneProp>>

\* execute up to the try block: validation, then the preparation.
Execute(target) ==
  /\ pc = "idle"
  /\ IF Valid(images, target)
     THEN hist.runs < hist.limit /\ Prepare(target)
     ELSE Rejected(target)

\* ------------------------------------------------- execute, lines 171-234

\* The head of a channel pass: _inject_bake_nodes, and _setup_rewire in the
\* passes that bake through Emission; the host bake call is next.
BeginPass ==
  /\ pc = "pass"
  /\ LET img == loc.bake_images[Channels[loc.chan]]
         inj == InjectBakeNodes(G, slots, mat, img)
         src == RewireSource[loc.chan]
         set == IF src = "" THEN [g |-> inj.g, restore_data |-> <<>>]
                ELSE SetupRewire(inj.g, slots, mat, src)
     IN /\ tree' = set.g.tree
        /\ node' = set.g.node
        /\ nextId' = set.g.nextId
        /\ loc' = [loc EXCEPT !.temp_nodes = inj.temp,
                              !.restore_data = set.restore_data]
        /\ hist' = [hist EXCEPT !.pre = Append(@,
                      [orig |-> GraphView(G, mat, RangeOf(hist.slots0)),
                       cur |-> GraphView(G, mat, RangeOf(slots))])]
  /\ pc' = "bake"
  /\ UNCHANGED <<slots, mat, images, env, files, sceneProp, result>>

\* The host bake call returns: the channel image holds the render, then
\* _restore_rewire (rewire passes) and _remove_bake_nodes run. A raise of
\* _restore_rewire is caught by the except clause like any other.
BakeReturns(ub) ==
  /\ pc = "bake"
  /\ LET img == loc.bake_images[Channels[loc.chan]]
         res == IF RewireSource[loc.chan] = ""
                THEN [g |-> G, raised |-> FALSE]
                ELSE RestoreRewire(G, loc.restore_data, ub)
         g2 == IF res.raised THEN res.g
               ELSE RemoveBakeNodes(res.g, mat, loc.temp_nodes)
     IN /\ images' = IF loc.temp_nodes = <<>> THEN images
                     ELSE [images EXCEPT ![img].pixels =
                             BakeOutput(loc.seed, loc.chan, loc.n)]
        /\ tree' = g2.tree
        /\ node' = g2.node
        /\ nextId' = g2.nextId
        /\ hist' = [hist EXCEPT !.okBakes = @ + 1]
        /\ IF res.raised
           THEN /\ pc' = "finally"
                /\ loc' = loc
           ELSE IF loc.chan = NumPasses
           THEN /\ pc' = "pack"
                /\ loc' = loc
           ELSE /\ pc' = "pass"
                /\ loc' = [loc EXCEPT !.chan = @ + 1]
  /\ UNCHANGED <<slots, mat, env, files, sceneProp, result>>

\* BakeRaises with the exception caught inside the pass: execute goes on to
\* the next pass, and to packing after the last.
BakeRaisesCaughtInPass ==
  /\ pc = "bake"
  /\ pc' = IF loc.chan = NumPasses THEN "pack" ELSE "pass"
  /\ loc' = IF loc.chan = NumPasses THEN loc ELSE [loc EXCEPT !.chan = @ + 1]
  /\ hist' = [hist EXCEPT !.raisedAt = loc.chan]
  /\ UNCHANGED <<slots, mat, tree, node, images, env, files, sceneProp,
                 nextId, result>>

\* The host bake call raises: control leaves the try block for the except
\* clause (a report) and the finally block.
BakeRaises ==
  /\ pc = "bake"
  /\ pc' = "finally"
  /\ hist' = [hist EXCEPT !.raisedAt = loc.chan]
  /\ UNCHANGED <<slots, mat, tree, node, images, env, files, sceneProp,
                 nextId, loc, result>>

\* Lines 224-231: _pack_orm returns, the image is recorded, success is set.
PackReturns ==
  /\ pc = "pack"
  /\ images' = PackOrm(images, nextId, loc.bake_images["ao"],
                       loc.bake_images["roughness"],
                       loc.bake_images["metallic"], loc.n)
  /\ nextId' = nextId + 1
  /\ loc' = [loc EXCEPT !.orm = nextId, !.success = TRUE]
  /\ hist' = [hist EXCEPT !.packCalled = TRUE, !.allocated = @ \cup {nextId}]
  /\ pc' = "finally"
  /\ UNCHANGED <<slots, mat, tree, node, env, files, sceneProp, result>>

\* _pack_orm raises: before line 412 nothing is registered yet; on line 413
\* (the pixel list is built and assigned after images.new) the new image is
\* registered but never recorded in bake_images.
PackRaises(registered) ==
  /\ pc = "pack"
  /\ IF registered
     THEN /\ images' = ImagesNew(images, nextId, "_bake_orm", loc.n)
          /\ nextId' = nextId + 1
          /\ hist' = [hist EXCEPT !.packCalled = TRUE,
                                  !.allocated = @ \cup {nextId}]
     ELSE /\ hist' = [hist EXCEPT !.packCalled = TRUE]
          /\ UNCHANGED <<images, nextId>>
  /\ pc' = "finally"
  /\ UNCHANGED <<slots, mat, tree, node, env, files, sceneProp, loc, result>>

\* ------------------------------------------------- execute, lines 236-262

\* RestoredEnv without line 240: the compute backend is left as execute set it.
RestoredEnvKeepsBackend(e, l) ==
  [e EXCEPT !.device = l.original_device,
            !.engine = l.original_engine,
            !.mode = l.original_mode,
            !.selected = IF l.was_selected THEN @ ELSE FALSE]

\* Lines 239-245: the settings captured before the bake are written back.
RestoredEnv(e, l) ==
  [e EXCEPT !.device = l.original_device,
            !.compute = l.original_compute_type,
            !.engine = l.original_engine,
            !.mode = l.original_mode,
            !.selected = IF l.was_selected THEN @ ELSE FALSE]

RECURSIVE RemoveIntermediatesButLast(_, _, _)
\* RemoveIntermediates with the loop of line 248 one channel short: the
\* metallic image is left to the rest of the clean-up.
RemoveIntermediatesButLast(im, l, chs) ==
  IF Len(chs) <= 1 THEN im
  ELSE LET h == l.bake_images[Head(chs)] IN
       RemoveIntermediatesButLast(
         IF h \in DOMAIN im THEN ImagesRemove(im, h) ELSE im, l, Tail(chs))

RECURSIVE RemoveIntermediates(_, _, _)
\* Lines 248-251: the packing inputs are removed when still registered.
RemoveIntermediates(im, l, chs) ==
  IF chs = <<>> THEN im
  ELSE LET h == l.bake_images[Head(chs)] IN
       RemoveIntermediates(IF h \in DOMAIN im THEN ImagesRemove(im, h) ELSE im,
                           l, Tail(chs))

RECURSIVE DiscardFrom(_, _, _, _)
\* Lines 254-256: every value of bake_images is removed when its name is
\* registered. A value removed two lines above is a dangling handle: reading
\* its name raises, or yields the old name, which is registered no more.
DiscardFrom(im, l, i, stale) ==
  IF i > Len(AllocOrder) THEN [im |-> im, raised |-> FALSE]
  ELSE LET h == l.bake_images[AllocOrder[i]] IN
       IF h \in DOMAIN im
       THEN DiscardFrom(ImagesRemove(im, h), l, i + 1, stale)
       ELSE IF stale = "raise" THEN [im |-> im, raised |-> TRUE]
            ELSE DiscardFrom(im, l, i + 1, stale)

\* The images after lines 247-257.
CleanUp(im, l, stale) ==
  LET im1 == RemoveIntermediates(im, l, <<"ao", "roughness", "metallic">>)
  IN IF l.success THEN [im |-> im1, raised |-> FALSE]
     ELSE DiscardFrom(im1, l, 1, stale)

\* The finally block and the rest of execute: materials and settings are
\* restored, images cleaned up, and execute returns (or the clean-up raises).
Finish(stale) ==
  /\ pc = "finally"
  /\ LET rest == RestoreOriginalMaterials(G, slots, mat, loc.original_materials)
         clean == CleanUp(images, loc, stale)
     IN /\ slots' = rest.slots
        /\ mat' = rest.mat
        /\ tree' = rest.g.tree
        /\ node' = rest.g.node
        /\ nextId' = rest.g.nextId
        /\ env' = RestoredEnv(env, loc)
        /\ images' = clean.im
        /\ result' = IF loc.success THEN "FINISHED"
                     ELSE IF clean.raised THEN "RAISED" ELSE "CANCELLED"
        /\ sceneProp' = IF loc.success THEN loc.target[1] ELSE sceneProp
        /\ hist' = [hist EXCEPT !.op = IF loc.success THEN "bake_ok"
                                       ELSE "bake_failed"]
  /\ pc' = "idle"
  /\ loc' = NoLoc
  /\ UNCHANGED files

\* --------------------------------------- OBJECT_OT_bake_materials_save

TextureMap ==
  <<<<"BC", "_bake_basecolor">>, <<"N", "_bake_normal">>,
    <<"ORM", "_bake_orm">>, <<"E", "_bake_emissive">>,
    <<"O", "_bake_opacity">>>>

RECURSIVE SaveFrom(_, _, _, _, _)
\* Lines 455-463: each image found under its exact name is written to
\* T_<target>_<suffix>.png and removed from the registry.
SaveFrom(im, fs, target, i, saved) ==
  IF i > Len(TextureMap) THEN [im |-> im, files |-> fs, saved |-> saved]
  ELSE LET h == ImagesGet(im, <<TextureMap[i][2], 0>>) IN
       IF h = None THEN SaveFrom(im, fs, target, i + 1, saved)
       ELSE SaveFrom(ImagesRemove(im, h),
                     (<<target, TextureMap[i][1]>> :>
                        [img |-> h, pixels |-> im[h].pixels])
                       @@ fs,
                     target, i + 1, saved \cup {<<target, TextureMap[i][1]>>})

\* poll of the save operator, line 431.
SavePoll == ImagesGet(images, <<"_bake_basecolor", 0>>) # None

\* Save with the directory test of line 440 placed after the loop: a missing
\* directory is reported once the images have left the registry.
SaveTestsDirectoryLast(dirExists) ==
  /\ pc = "idle"
  /\ SavePoll
  /\ LET target == IF sceneProp = "" THEN "Texture" ELSE sceneProp
         out == SaveFrom(images, files, target, 1, {})
     IN /\ images' = out.im
        /\ files' = IF dirExists THEN out.files ELSE files
        /\ result' = IF dirExists /\ out.saved # {} THEN "FINISHED"
                     ELSE "CANCELLED"
        /\ hist' = [hist EXCEPT
                      !.op = IF dirExists THEN "save_ok" ELSE "save_failed",
                      !.prev = hist.op,
                      !.written = IF dirExists THEN out.saved ELSE {}]
  /\ UNCHANGED <<slots, mat, tree, node, env, sceneProp, nextId, pc, loc>>

\* execute of the save operator, with whether the chosen directory exists.
Save(dirExists) ==
  /\ pc = "idle"
  /\ SavePoll
  /\ IF ~dirExists
     THEN /\ result' = "CANCELLED"
          /\ hist' = [hist EXCEPT !.op = "save_failed", !.prev = hist.op,
                                  !.written = {}]
          /\ UNCHANGED <<images, files>>
     ELSE LET target == IF sceneProp = "" THEN "Texture" ELSE sceneProp
              out == SaveFrom(images, files, target, 1, {})
          IN /\ images' = out.im
             /\ files' = out.files
             /\ result' = IF out.saved = {} THEN "CANCELLED" ELSE "FINISHED"
             /\ hist' = [hist EXCEPT !.op = "save_ok", !.prev = hist.op,
                                     !.written = out.saved]
  /\ UNCHANGED <<slots, mat, tree, node, env, sceneProp, nextId, pc, loc>>

\* ------------------------------------------------ register, unregister

BakePrefix == "_bake_"

\* img.name.startswith('_bake_'), line 492.
StartsWithBake(name) ==
  /\ Len(name[1]) >= Len(BakePrefix)
  /\ SubSeq(name[1], 1, Len(BakePrefix)) = BakePrefix

\* unregister(), lines 486-493: the menu entry and both operator classes
\* are taken out, then every image whose name starts with _bake_ is removed
\* from the registry; no file is written.
Unregister ==
  /\ pc = "idle"
  /\ images' = [h \in {x \in DOMAIN images : ~StartsWithBake(images[x].name)} |->
                  images[h]]
  /\ pc' = "unregistered"
  /\ hist' = [hist EXCEPT !.op = "unregister"]
  /\ UNCHANGED <<slots, mat, tree, node, env, files, sceneProp, nextId, loc,
                 result>>

\* register(), lines 480-483: the operators can be run again.
Register ==
  /\ pc = "unregistered"
  /\ pc' = "idle"
  /\ UNCHANGED <<slots, mat, tree, node, images, env, files, sceneProp,
                 nextId, loc, result, hist>>

\* ------------------------------------------------------------------ Next

Targets == {NoneName, <<"Tex", 0>>, <<"Gone", 0>>}

Next ==
  \/ \E target \in Targets : Execute(target)
  \/ BeginPass
  \/ \E ub \in UBOutcomes : BakeReturns(ub)
  \/ BakeRaises
  \/ PackReturns
  \/ \E registered \in BOOLEAN : PackRaises(registered)
  \/ \E stale \in UBOutcomes : Finish(stale)
  \/ \E dirExists \in BOOLEAN : Save(dirExists)
  \/ Unregister
  \/ Register

Spec == Init /\ [][Next]_vars

SpecLife == InitLife /\ [][Next]_vars

\* ------------------------------------- the rewire pair called on its own

\* Every layout of up to MaxSlots slots, every Principled configuration.
InitRewire ==
  /\ \E k \in SlotLayouts, cfg \in PrincipledConfigs : Loaded(k, cfg)
  /\ env = NoEnv
  /\ hist = NoHist

\* _setup_rewire(obj, src) called on the object.
RewireSetup(src) ==
  /\ pc = "idle"
  /\ LET set == SetupRewire(G, slots, mat, src)
         view == GraphView(G, mat, RangeOf(slots))
     IN /\ tree' = set.g.tree
        /\ node' = set.g.node
        /\ nextId' = set.g.nextId
        /\ loc' = [chan |-> 0, restore_data |-> set.restore_data]
        /\ hist' = [hist EXCEPT !.op = "setup", !.source = src,
                                !.pre = <<[orig |-> view, cur |-> view,
                                           inputs |-> InputsView(G)]>>]
  /\ pc' = "wired"
  /\ UNCHANGED <<slots, mat, images, env, files, sceneProp, result>>

\* _restore_rewire(restore_data) called with the record _setup_rewire
\* returned.
RewireRestore(ub) ==
  /\ pc = "wired"
  /\ LET res == RestoreRewire(G, loc.restore_data, ub)
     IN /\ tree' = res.g.tree
        /\ node' = res.g.node
        /\ nextId' = res.g.nextId
        /\ pc' = IF res.raised THEN "raised" ELSE "restored"
        /\ hist' = [hist EXCEPT
                      !.op = "restore",
                      !.pre = Append(@, [orig |-> hist.pre[1].orig,
                                         cur |-> GraphView(res.g, mat,
                                                           RangeOf(slots))])]
  /\ UNCHANGED <<slots, mat, images, env, files, sceneProp, loc, result>>

\* _restore_rewire(restore_data) called a second time with the same record.
RewireRestoreAgain(ub) ==
  /\ pc = "restored"
  /\ LET res == RestoreRewire(G, loc.restore_data, ub)
     IN /\ tree' = res.g.tree
        /\ node' = res.g.node
        /\ nextId' = res.g.nextId
        /\ pc' = IF res.raised THEN "again_raised" ELSE "again"
  /\ hist' = [hist EXCEPT !.op = "restore_again"]
  /\ UNCHANGED <<slots, mat, images, env, files, sceneProp, loc, result>>

NextRewire ==
  \/ \E src \in SourceNames : RewireSetup(src)
  \/ \E ub \in UBOutcomes : RewireRestore(ub)
  \/ \E ub \in UBOutcomes : RewireRestoreAgain(ub)

SpecRewire == InitRewire /\ [][NextRewire]_vars

\* ----------------------------------------------- _pack_orm on its own

PixelMenu == {<<10, 20, 30, ByteMax>>, <<200, 100, 50, 0>>, <<7, 7, 90, 128>>}

PackHandles == [c \in RangeOf(AllocOrder) |->
                  FirstId - 1 + CHOOSE i \in 1..Len(AllocOrder) : AllocOrder[i] = c]

\* An execute about to call _pack_orm: the seven channel images exist, the
\* three packing inputs hold any pixels of PixelMenu.
InitPack ==
  /\ LoadedScene(<<"top">>, [ec |-> TRUE, src |-> FALSE, strength |-> 0])
  /\ \E n \in 1..MaxPixels :
       \E ao \in [1..n -> PixelMenu], rough \in [1..n -> PixelMenu],
          metal \in [1..n -> PixelMenu] :
         /\ images =
              [h \in RangeOf([i \in 1..Len(AllocOrder) |-> FirstId - 1 + i]) |->
                 [name |-> <<"_bake_" \o AllocOrder[h - FirstId + 1], 0>>,
                  pixels |-> CASE h = PackHandles["ao"] -> ao
                               [] h = PackHandles["roughness"] -> rough
                               [] h = PackHandles["metallic"] -> metal
                               [] OTHER -> [p \in 1..n |-> Opaque(0, 0, 0)]]]
         /\ loc = [chan |-> NumPasses, target |-> <<"Tex", 0>>, seed |-> 1,
                   n |-> n, was_selected |-> TRUE, original_mode |-> "OBJECT",
                   original_engine |-> "CYCLES", original_device |-> "CPU",
                   original_compute_type |-> "NONE",
                   original_materials |-> [x \in {} |-> None],
                   bake_images |-> PackHandles, orm |-> None,
                   temp_nodes |-> <<>>, restore_data |-> <<>>,
                   success |-> FALSE]
  /\ env = [engine |-> "CYCLES", device |-> "CPU", compute |-> "NONE",
            mode |-> "OBJECT", selected |-> TRUE, types |-> {},
            uv_active |-> "UVMap", uv_choice |-> "NONE"]
  /\ files = [x \in {} |-> None]
  /\ sceneProp = ""
  /\ nextId = FirstId + Len(AllocOrder)
  /\ pc = "pack"
  /\ result = ""
  /\ hist = [NoHist EXCEPT !.op = "running", !.okBakes = NumPasses]

NextPack == PackReturns

SpecPack == InitPack /\ [][NextPack]_vars

\* ------------------------------------------ _find_principled on its own

\* Graphs of nested node groups: a chain of len group levels under the top
\* tree; the deepest tree may hold a Principled node (deep); one level may
\* hold another Principled node before or after its group node (side,
\* sidePos); the top tree may hold a second group node, after the first,
\* that uses the tree of a deeper level (shortcut). Every tree ends with a
\* node that is no way down: a Math node, or a group node without a tree.
NestShapes ==
  {s \in [len : 0..MaxNest, deep : BOOLEAN, side : (-1)..MaxNest,
          sidePos : {"before", "after"}, shortcut : 0..MaxNest] :
     /\ s.side <= s.len
     /\ (s.side = -1 => s.sidePos = "before")
     /\ s.shortcut <= s.len
     /\ s.shortcut # 1}

NestTop == 200
NestTree(j) == NestTop + j
NestNode(j, k) == 10 * NestTree(j) + k

NestNodes(s, j) ==
  (IF s.side = j /\ s.sidePos = "before" THEN <<NestNode(j, 1)>> ELSE <<>>)
  \o (IF j < s.len THEN <<NestNode(j, 2)>> ELSE <<>>)
  \o (IF j = 0 /\ s.shortcut # 0 THEN <<NestNode(j, 3)>> ELSE <<>>)
  \o (IF s.side = j /\ s.sidePos = "after" THEN <<NestNode(j, 4)>> ELSE <<>>)
  \o <<NestNode(j, 5)>>
  \o (IF j = s.len /\ s.deep THEN <<NestNode(j, 6)>> ELSE <<>>)

NestNodeRec(s, j, k) ==
  CASE k \in {1, 4, 6} -> PlainNode("BSDF_PRINCIPLED", "Principled BSDF")
    [] k = 2 -> [PlainNode("GROUP", "Group") EXCEPT !.group = NestTree(j + 1)]
    [] k = 3 -> [PlainNode("GROUP", "Group") EXCEPT !.group = NestTree(s.shortcut)]
    [] OTHER -> IF j % 2 = 1 THEN PlainNode("GROUP", "Group")
                ELSE PlainNode("MATH", "Math")

NestGraphTree(s) ==
  [t \in {NestTree(j) : j \in 0..s.len} |->
     [nodes |-> NestNodes(s, t - NestTop), links |-> {}, active |-> None]]

NestGraphNode(s) ==
  [n \in UNION {RangeOf(NestNodes(s, j)) : j \in 0..s.len} |->
     NestNodeRec(s, (n \div 10) - NestTop, n % 10)]

InitFind ==
  /\ \E s \in NestShapes : tree = NestGraphTree(s) /\ node = NestGraphNode(s)
  /\ slots = <<>>
  /\ mat = <<>>
  /\ images = [x \in {} |-> None]
  /\ env = NoEnv
  /\ files = [x \in {} |-> None]
  /\ sceneProp = ""
  /\ nextId = FirstId
  /\ pc = "idle"
  /\ loc = [chan |-> 0, found |-> <<None, None>>]
  /\ result = ""
  /\ hist = NoHist

\* _find_principled(node_tree) called on the top tree, depth defaulted to 0.
Find ==
  /\ pc = "idle"
  /\ loc' = [loc EXCEPT !.found = FindPrincipled(G, NestTop, 0)]
  /\ pc' = "found"
  /\ hist' = [hist EXCEPT !.op = "find"]
  /\ UNCHANGED <<slots, mat, tree, node, images, env, files, sceneProp,
                 nextId, result>>

NextFind == Find

SpecFind == InitFind /\ [][NextFind]_vars

\* ------------------------------------------------------------ properties

\* execute has ended, by return or by an exception out of its clean-up.
ExecuteEnded == pc = "idle" /\ hist.op \in {"bake_ok", "bake_failed"}

OriginalGraphs == GraphView(G, mat, RangeOf(hist.slots0))

\* C1: once execute has ended, whatever the bake calls did, the graphs of
\* the object's materials (nodes, links, emission state of the Principled
\* nodes) equal their state at the head of every pass.
C1_GraphsAsBeforeEveryPass ==
  ExecuteEnded => \A i \in 1..Len(hist.pre) : OriginalGraphs = hist.pre[i].orig

\* C2: _restore_rewire after _setup_rewire, for any source input and any
\* assignment of materials to slots, leaves the emission state of every
\* Principled node as it was and no temporary node in any graph.
C2_RewireRoundTrip ==
  pc \in {"restored", "raised"} =>
    /\ pc = "restored"
    /\ \A t \in DOMAIN hist.pre[1].cur :
         /\ EmissionView(G, t) = hist.pre[1].cur[t].emission
         /\ RangeOf(tree[t].nodes) = hist.pre[1].cur[t].nodes

\* C3: when a bake call or packing raised, execute ends with CANCELLED and
\* none of the images it allocated is registered any more.
C3_FailureLeavesNoImage ==
  (ExecuteEnded /\ (hist.raisedAt # 0 \/ (hist.packCalled /\ hist.op = "bake_failed")))
    => /\ hist.allocated \cap DOMAIN images = {}
       /\ result = "CANCELLED"

\* C4: once an execute that passed validation has ended, engine, device,
\* compute backend, object mode and selection are those of its call.
C4_SettingsRestored ==
  ExecuteEnded =>
    /\ env.engine = hist.env0.engine
    /\ env.device = hist.env0.device
    /\ env.compute = hist.env0.compute
    /\ env.mode = hist.env0.mode
    /\ env.selected = hist.env0.selected

\* A bake that raised in the last pass has ended, called from edit mode on
\* an unselected object under another engine, on a host with a GPU backend.
C4_Witness ==
  /\ ExecuteEnded
  /\ hist.raisedAt = NumPasses
  /\ hist.env0.engine # "CYCLES"
  /\ hist.env0.mode = "EDIT"
  /\ ~hist.env0.selected
  /\ hist.env0.types # {}

\* C5: after the bake call of a pass, returned or raised, every material
\* being baked has exactly the nodes it had at the head of the pass.
C5_NodesAsBeforePass ==
  (pc \in {"pass", "pack", "finally"} /\ hist.pre # <<>> /\ ~hist.packCalled) =>
    \A t \in DOMAIN hist.pre[Len(hist.pre)].cur :
      RangeOf(tree[t].nodes) = hist.pre[Len(hist.pre)].cur[t].nodes

\* C6: an execute confirmed with the sentinel, or with a name that is not
\* registered, returns CANCELLED and changes no graph, slot, image, setting,
\* file or scene property.
C6_InvalidTargetChangesNothing ==
  [][(/\ pc = "idle"
      /\ hist'.op \in {"invalid", "running"}
      /\ (hist'.target = NoneName \/ hist'.target \notin ImageNames(images)))
     => /\ result' = "CANCELLED"
        /\ pc' = "idle"
        /\ UNCHANGED <<slots, mat, tree, node, images, env, files,
                       sceneProp, nextId>>]_vars

\* An execute was confirmed with a name that is not registered.
C6_Witness ==
  /\ pc = "idle"
  /\ hist.op = "invalid"
  /\ hist.target = <<"Gone", 0>>
  /\ result = "CANCELLED"

\* C7: from the call of execute on, the graph of every library-linked
\* material is as it was at the call; once execute has ended every slot
\* holds the material it held and no local copy is left.
C7_LibraryMaterialUntouched ==
  hist.op \in {"running", "bake_ok", "bake_failed"} =>
    /\ GraphView(G, mat, LibraryMaterials(mat)) = hist.lib0
    /\ ExecuteEnded => (slots = hist.slots0 /\ DOMAIN mat = hist.mats0)

\* C8: _pack_orm is called only after seven bake calls returned and none
\* raised, and an execute in which a bake call raised registers no
\* _bake_orm image.
C8_PackOnlyAfterAllBakes ==
  /\ hist.packCalled => (hist.okBakes = NumPasses /\ hist.raisedAt = 0)
  /\ hist.raisedAt # 0 =>
       \A h \in hist.allocated \cap DOMAIN images :
         images[h].name[1] # "_bake_orm"

\* _pack_orm has returned in an execute of a scene with materials.
C8_Witness ==
  /\ pc = "finally"
  /\ hist.packCalled
  /\ loc.success
  /\ loc.orm \in DOMAIN images
  /\ hist.okBakes = NumPasses

\* C9: _pack_orm leaves its three sources as they were and registers an
\* image whose every pixel has the occlusion red as red, the roughness red
\* as green, the metallic red as blue, and full alpha.
C9_PackIsChannelPure ==
  [][(pc = "pack" /\ pc' = "finally" /\ loc'.success) =>
       LET ao == images[loc.bake_images["ao"]].pixels
           rough == images[loc.bake_images["roughness"]].pixels
           metal == images[loc.bake_images["metallic"]].pixels
           orm == images'[loc'.orm].pixels
       IN /\ DOMAIN orm = 1..loc.n
          /\ \A p \in 1..loc.n :
               /\ orm[p][1] = ao[p][1]
               /\ orm[p][2] = rough[p][1]
               /\ orm[p][3] = metal[p][1]
               /\ orm[p][4] = ByteMax
          /\ \A c \in {"ao", "roughness", "metallic"} :
               images'[loc.bake_images[c]] = images[loc.bake_images[c]]]_vars

\* _pack_orm has returned an image of several pixels that are not alike,
\* packed from sources whose components differ.
C9_Witness ==
  /\ pc = "finally"
  /\ loc.success
  /\ loc.n > 1
  /\ images[loc.orm].pixels[1] # images[loc.orm].pixels[2]
  /\ images[loc.bake_images["roughness"]].pixels[1][1]
       # images[loc.bake_images["roughness"]].pixels[1][2]

SaveSuffixes == {TextureMap[i][1] : i \in 1..Len(TextureMap)}

\* C10: a save into an existing directory right after a successful bake has
\* written exactly the five files of the chosen target and leaves no image
\* whose name starts with _bake_ registered.
C10_SaveWritesFiveAndClears ==
  (pc = "idle" /\ hist.op = "save_ok" /\ hist.prev = "bake_ok") =>
    /\ hist.written = {<<sceneProp, sfx>> : sfx \in SaveSuffixes}
    /\ BakeImages(images) = {}

\* C11: a save into a directory that does not exist returns CANCELLED,
\* writes no file and leaves the image registry as it was, so the save
\* operator can still be run on the same images.
C11_SaveMissingDirChangesNothing ==
  [][(hist'.op = "save_failed" /\ hist' # hist)
       => /\ result' = "CANCELLED"
          /\ files' = files
          /\ images' = images
          /\ hist'.written = {}
          /\ SavePoll']_vars

\* A save into a missing directory has been refused right after a
\* successful bake, whose five images are still registered.
C11_Witness ==
  /\ pc = "idle"
  /\ hist.op = "save_failed"
  /\ hist.prev = "bake_ok"
  /\ result = "CANCELLED"
  /\ Cardinality(BakeImages(images)) = Len(TextureMap)
  /\ DOMAIN files = {}

\* The usable materials of the object in which _find_principled finds no
\* Principled node.
WithoutPrincipled ==
  {m \in RangeOf(slots) :
     Usable(mat, m) /\ FindPrincipled(G, mat[m].tree, 0)[1] = None}

\* The nodes _inject_bake_nodes added in the current pass.
InjectedNow == {loc.temp_nodes[i][2] : i \in 1..Len(loc.temp_nodes)}

\* C12: from _setup_rewire of a pass to the end of the try block, a material
\* without a Principled node has the nodes (the injected one aside), links
\* and emission state of the head of the pass and no restore record; and an
\* execute over materials that all lack a Principled node, none of whose
\* bake calls or packing raised, has baked seven channels and FINISHED.
C12_NoPrincipledIsNoOp ==
  /\ (pc \in {"bake", "pass", "pack", "finally"} /\ hist.pre # <<>>) =>
       \A m \in WithoutPrincipled :
         \A t \in MaterialTrees(G, mat, m) :
           LET before == hist.pre[Len(hist.pre)].cur[t] IN
           /\ RangeOf(tree[t].nodes) \ InjectedNow = before.nodes
           /\ tree[t].links = before.links
           /\ EmissionView(G, t) = before.emission
           /\ \A i \in 1..Len(loc.restore_data) :
                loc.restore_data[i].node_tree # t
  /\ (/\ ExecuteEnded
      /\ \A m \in RangeOf(slots) \ {None} :
           mat[m].tree = None \/ FindPrincipled(G, mat[m].tree, 0)[1] = None
      /\ hist.raisedAt = 0
      /\ ~(hist.packCalled /\ hist.op = "bake_failed"))
     => (result = "FINISHED" /\ hist.okBakes = NumPasses)

\* An execute over an object none of whose materials has a Principled node
\* has gone through its seven passes, three of them with a rewire, and ended.
C12_Witness ==
  /\ ExecuteEnded
  /\ result = "FINISHED"
  /\ hist.okBakes = NumPasses
  /\ WithoutPrincipled # {}
  /\ \A m \in RangeOf(slots) \ {None} :
       mat[m].tree = None \/ FindPrincipled(G, mat[m].tree, 0)[1] = None

RECURSIVE PrincipledPaths(_, _)
\* Every way down from tree t to a Principled node: the positions, tree by
\* tree, of the group nodes entered and then of the Principled node.
PrincipledPaths(g, t) ==
  UNION {IF g.node[g.tree[t].nodes[i]].type = "BSDF_PRINCIPLED" THEN {<<i>>}
         ELSE IF g.node[g.tree[t].nodes[i]].type = "GROUP"
                 /\ g.node[g.tree[t].nodes[i]].group # None
         THEN {<<i>> \o q :
                 q \in PrincipledPaths(g, g.node[g.tree[t].nodes[i]].group)}
         ELSE {} : i \in 1..Len(g.tree[t].nodes)}

RECURSIVE Earlier(_, _)
\* Path a comes before path b in depth-first, declaration order.
Earlier(a, b) ==
  /\ a # <<>>
  /\ b # <<>>
  /\ \/ a[1] < b[1]
     \/ a[1] = b[1] /\ Earlier(Tail(a), Tail(b))

RECURSIVE PathEnd(_, _, _)
\* The node a path from tree t ends at, and the tree that holds it.
PathEnd(g, t, q) ==
  IF Len(q) = 1 THEN <<g.tree[t].nodes[q[1]], t>>
  ELSE PathEnd(g, g.node[g.tree[t].nodes[q[1]]].group, Tail(q))

\* The Principled nodes under at most MaxDepth levels of groups.
WithinBound == {q \in PrincipledPaths(G, NestTop) : Len(q) - 1 <= MaxDepth}

\* C13: _find_principled returns the Principled node that comes first in
\* depth-first, declaration order among those under at most 10 levels of
\* groups, with the tree that holds it; (None, None) when there is none;
\* and never a node with a tree that does not hold it.
C13_FindPrincipledFirstWithinBound ==
  pc = "found" =>
    /\ IF WithinBound = {} THEN loc.found = <<None, None>>
       ELSE \E q \in WithinBound :
              /\ \A r \in WithinBound \ {q} : Earlier(q, r)
              /\ loc.found = PathEnd(G, NestTop, q)
    /\ loc.found[1] # None =>
         /\ loc.found[1] \in RangeOf(tree[loc.found[2]].nodes)
         /\ node[loc.found[1]].type = "BSDF_PRINCIPLED"

\* The search has returned a Principled node found ten levels down through
\* the second group node of the top tree, the first way down to it being
\* deeper than the bound.
C13_Witness ==
  /\ pc = "found"
  /\ loc.found[1] # None
  /\ \E q \in WithinBound : Len(q) - 1 = MaxDepth /\ loc.found = PathEnd(G, NestTop, q)
  /\ \E q \in PrincipledPaths(G, NestTop) :
       Len(q) - 1 > MaxDepth /\ \A r \in WithinBound : Earlier(q, r)

\* The usable materials of the object in which _find_principled finds a
\* Principled node, each with the node and the tree that holds it.
Found ==
  {FindPrincipled(G, mat[m].tree, 0) :
     m \in {x \in RangeOf(slots) : Usable(mat, x)}} \ {<<None, None>>}

\* C14: after _setup_rewire(obj, s) every found Principled node has exactly
\* one link into Emission Color; it comes from the socket that feeds input
\* s when s is linked, else from a node created by the call, a constant
\* holding the default of s (a colour's red, green and blue, or a scalar in
\* all three, with alpha 1.0); Emission Strength is 1.0; the links and the
\* default value of s are as before.
C14_SetupRewirePostcondition ==
  pc = "wired" =>
    \A f \in Found :
      LET p == f[1]
          t == f[2]
          s == hist.source
          before == hist.pre[1].cur[t]
          sBefore == {l \in before.links : l.to = p /\ l.input = s}
          was == hist.pre[1].inputs[p][s]
          ec == LinksInto(G, t, p, "Emission Color")
      IN /\ Cardinality(ec) = 1
         /\ \A l \in ec :
              IF sBefore # {}
              THEN l.from \in {k.from : k \in sBefore}
              ELSE /\ l.from \notin before.nodes
                   /\ l.from \in RangeOf(tree[t].nodes)
                   /\ node[l.from].type = "RGB"
                   /\ node[l.from].out.kind = "color"
                   /\ node[l.from].out.v[4] = One
                   /\ \A c \in 1..3 :
                        node[l.from].out.v[c] =
                          IF was.kind = "color" THEN was.v[c] ELSE was.v
         /\ node[p].inputs["Emission Strength"] = Scalar(One)
         /\ LinksInto(G, t, p, s) = sBefore
         /\ node[p].inputs[s] = was

\* _setup_rewire has run for Alpha, unlinked, on an object whose two slots
\* reach the same Principled node, which had a link into Emission Color and
\* a strength other than 1.0.
C14_Witness ==
  /\ pc = "wired"
  /\ hist.source = "Alpha"
  /\ Len(loc.restore_data) = 2
  /\ loc.restore_data[1].principled = loc.restore_data[2].principled
  /\ loc.restore_data[1].temp_nodes # <<>>
  /\ loc.restore_data[1].emission_color_links # <<>>
  /\ loc.restore_data[1].emission_strength_value # Scalar(One)

\* C15: at every bake call of execute the rewires of earlier passes are
\* undone (emission state and nodes at the head of the pass are those of
\* the head of the first pass); a pass without a rewire bakes with the
\* emission state execute found, a pass with a rewire with its own rewire
\* applied to every found Principled node.
C15_OneRewireAtATime ==
  pc = "bake" =>
    LET first == hist.pre[1].cur
        head == hist.pre[Len(hist.pre)].cur
    IN /\ \A t \in DOMAIN first :
            /\ head[t].emission = first[t].emission
            /\ head[t].nodes = first[t].nodes
            /\ RewireSource[loc.chan] = "" =>
                 EmissionView(G, t) = first[t].emission
       /\ RewireSource[loc.chan] # "" =>
            \A f \in Found :
              /\ Cardinality(LinksInto(G, f[2], f[1], "Emission Color")) = 1
              /\ node[f[1]].inputs["Emission Strength"] = Scalar(One)

\* C16: at every bake call of execute each usable material of the object
\* holds exactly one node injected in this pass; that node is the active
\* node and the only selected node of the material's tree, and its image is
\* the bake image of the channel.
C16_OneActiveInjectedNode ==
  pc = "bake" =>
    \A m \in {x \in RangeOf(slots) : Usable(mat, x)} :
      LET t == mat[m].tree
          inj == RangeOf(tree[t].nodes) \cap InjectedNow
      IN /\ Cardinality(inj) = 1
         /\ \A n \in inj :
              /\ tree[t].active = n
              /\ node[n].image = loc.bake_images[Channels[loc.chan]]
              /\ {x \in RangeOf(tree[t].nodes) : node[x].select} = {n}

\* The images the last execute allocated that are still registered, by the
\* base of their names.
LeftOfLastExecute == {images[h].name[1] : h \in hist.allocated \cap DOMAIN images}

\* C17: once execute has ended, by success, failure or a raise of its
\* clean-up, none of its _bake_ao, _bake_roughness and _bake_metallic images
\* is registered; after a success its images still registered are exactly
\* basecolor, normal, emissive, opacity and orm.
C17_IntermediatesRemoved ==
  ExecuteEnded =>
    /\ LeftOfLastExecute \cap {"_bake_ao", "_bake_roughness", "_bake_metallic"} = {}
    /\ hist.op = "bake_ok" =>
         /\ LeftOfLastExecute = {"_bake_basecolor", "_bake_normal",
                                 "_bake_emissive", "_bake_opacity", "_bake_orm"}
         /\ Cardinality(hist.allocated \cap DOMAIN images) = 5

\* An execute whose last bake call raised has ended with its clean-up
\* raising, some of its images still registered.
C17_Witness ==
  /\ ExecuteEnded
  /\ hist.raisedAt = NumPasses
  /\ result = "RAISED"
  /\ LeftOfLastExecute # {}

\* C18: _restore_rewire raises neither when applied to the record of a
\* _setup_rewire whose bake did not complete nor when applied a second time
\* with the same record, and the second application leaves the graphs as
\* the first left them.
C18_RestoreIdempotentSafe ==
  /\ pc \notin {"raised", "again_raised"}
  /\ pc = "again" =>
       GraphView(G, mat, RangeOf(slots)) = hist.pre[2].cur

\* C19: a save into an existing directory that follows a successful bake,
\* whatever bakes and saves came before, writes only images that bake
\* allocated, one for each of the five suffixes, and leaves no image whose
\* name starts with _bake_ registered.
C19_SaveWritesLatestBake ==
  (pc = "idle" /\ hist.op = "save_ok" /\ hist.prev = "bake_ok") =>
    /\ \A f \in hist.written : files[f].img \in hist.allocated
    /\ Cardinality(hist.written) = Len(TextureMap)
    /\ BakeImages(images) = {}

====
